---- MODULE Spec2Model ----
\* Model of the zks-vernam key server: the session-scoped streaming endpoint
\* (src/src/vernam_session.rs, the VernamSession durable object, Spec), the
\* stateless streaming endpoint (src/src/lib.rs, /ws/key, SpecStream), the
\* bulk endpoint (src/src/lib.rs, /key/:count, SpecBulk) and the base64
\* encoder (SpecEncode).
\*
\* One VernamSession object serves the WebSockets it accepted.  Its handlers
\* (fetch, websocket_message, websocket_close) contain no await between their
\* first and last statement, so the single-threaded host runs each of them to
\* completion before it dispatches the next event.  The model keeps the
\* position of the running handler in pc, so that frames the client sends
\* while generate_and_send_keys loops are seen waiting in the inbox.
EXTENDS Integers, Sequences, FiniteSets, TLC

\* ---------------------------------------------------------------- bounds
\* The ceiling on chunks per request (100000 in lib.rs:123), scaled down.
CeilingChunks == 2
\* Largest chunk_count a client asks for: one above the ceiling.
MaxCount == CeilingChunks + 1
\* Bytes per chunk (CHUNK_SIZE = 16 * 1024 in the source), scaled down.
ChunkLen == 1
\* WebSockets the object accepts in one run.
MaxConn == 2
\* Frames the clients send in one run (close frames included).
MaxFrames == 2
\* The ceiling of send_key_chunks (count.min(100000), lib.rs:123), scaled
\* down far enough above the progress cadence.
MaxStreamChunks == 4
\* Largest count a client of the stateless endpoint asks for.
MaxStreamCount == MaxStreamChunks + 1
\* The progress cadence of send_key_chunks (i % 100, lib.rs:137), scaled down.
ProgressEvery == 2
\* Longest count segment of a bulk request path, in characters.
MaxDigits == 4
\* Longest input of the encoder, in bytes.
MaxDataLen == 4

\* ---------------------------------------------------------------- inputs
\* Byte values the random source is seen to deliver.
ByteVals == {255}
\* Last path segment of the upgrade request: the object serves one session.
SessionIds == {"s1"}
\* The role query parameter; NoRole stands for an absent parameter, which
\* is what the clients of the model send.
NoRole == "<absent>"
RoleParams == {NoRole}
\* The Upgrade header of a request to the object.
UpgradeHeaders == {"websocket", "<absent>"}

WS == 1..MaxConn

\* A frame from the client.  kind "ping" is the text frame ping, "garbage" a
\* text frame that is not JSON, "json" a text frame holding a JSON object with
\* the tag type and at most one more field, "binary" a binary frame, "close"
\* the close frame that ends the client's side of the connection.
Frame(kind, type, field, value) ==
    [kind |-> kind, type |-> type, field |-> field, value |-> value]

TextFrames ==
    {Frame("ping", "", "", 0), Frame("garbage", "", "", 0),
     Frame("json", "end_session", "", 0),
     Frame("json", "bogus", "", 0),
     Frame("json", "request_key", "", 0),
     Frame("json", "request_key", "count", 1)}
    \cup {Frame("json", "request_key", "chunk_count", n) : n \in 0..MaxCount}

ClientFrames == TextFrames \cup {Frame("binary", "", "", 0)}

CloseFrame == Frame("close", "", "", 0)

VARIABLES
    nconn,        \* number of WebSockets accepted so far
    readyState,   \* per WebSocket: "none", "open" or "closed"
    closeCode,    \* per WebSocket: code the server closed it with (0: not)
    att,          \* per WebSocket: the serialized attachment (SessionState)
    out,          \* per WebSocket: the frames the server sent, in order
    inbox,        \* per WebSocket: frames of the client not yet dispatched
    clientClosed, \* per WebSocket: the client sent its close frame
    frames,       \* number of frames the clients sent so far
    pc,           \* position of the running handler, "idle" when none runs
    cur,          \* WebSocket of the running handler (0: none runs)
    chunk_count,  \* argument of generate_and_send_keys (0 outside the call)
    i,            \* loop variable of generate_and_send_keys (0 outside)
    key_chunk,    \* the buffer key_chunk of the current iteration
    \* the stateless streaming endpoint, one connection
    events,       \* events of the WebSocket not yet read by handle_websocket
    sent,         \* the frames the server sent, in order
    task,         \* position of the spawned handle_websocket ("none": not yet)
    req_count,    \* req.count, the argument of send_key_chunks
    count,        \* the clamped count of send_key_chunks
    si,           \* the loop variable i of send_key_chunks
    chunk_buf,    \* the buffer chunk of the current iteration
    nevents,      \* number of events the client caused so far
    \* the bulk endpoint, one request
    request,      \* the method of the request and what follows /key/ in its path
    response,     \* the response of main to it
    \* the encoder, one call
    enc_data,     \* the argument data of base64_encode
    encoded       \* its result

sessionVars == <<nconn, readyState, closeCode, att, out, inbox, clientClosed,
                 frames, pc, cur, chunk_count, i, key_chunk>>
streamVars == <<events, sent, task, req_count, count, si, chunk_buf, nevents>>
bulkVars == <<request, response>>
encVars == <<enc_data, encoded>>

vars == <<sessionVars, streamVars, bulkVars, encVars>>

\* ------------------------------------------------------- wire encoding
ALPHABET ==
    <<"A","B","C","D","E","F","G","H","I","J","K","L","M","N","O","P",
      "Q","R","S","T","U","V","W","X","Y","Z","a","b","c","d","e","f",
      "g","h","i","j","k","l","m","n","o","p","q","r","s","t","u","v",
      "w","x","y","z","0","1","2","3","4","5","6","7","8","9","+","/">>

\* EncodeGroup that leaves the padding out.
EncodeGroup_noPadding(chunk) ==
    LET b0 == chunk[1]
        b1 == IF Len(chunk) > 1 THEN chunk[2] ELSE 0
        b2 == IF Len(chunk) > 2 THEN chunk[3] ELSE 0
    IN  << ALPHABET[(b0 \div 4) + 1],
           ALPHABET[((b0 % 4) * 16 + (b1 \div 16)) + 1] >>
        \o (IF Len(chunk) > 1
               THEN << ALPHABET[((b1 % 16) * 4 + (b2 \div 64)) + 1] >>
               ELSE << >>)
        \o (IF Len(chunk) > 2 THEN << ALPHABET[(b2 % 64) + 1] >> ELSE << >>)

\* One group of up to three bytes, as the body of the loop encodes it.
\* ALPHABET is indexed from 0 in the source, from 1 here.
EncodeGroup(chunk) ==
    LET b0 == chunk[1]
        b1 == IF Len(chunk) > 1 THEN chunk[2] ELSE 0
        b2 == IF Len(chunk) > 2 THEN chunk[3] ELSE 0
    IN  << ALPHABET[(b0 \div 4) + 1],
           ALPHABET[((b0 % 4) * 16 + (b1 \div 16)) + 1],
           IF Len(chunk) > 1
              THEN ALPHABET[((b1 % 16) * 4 + (b2 \div 64)) + 1] ELSE "=",
           IF Len(chunk) > 2 THEN ALPHABET[(b2 % 64) + 1] ELSE "=" >>

RECURSIVE base64_encode(_)
base64_encode(data) ==
    IF Len(data) = 0 THEN << >>
    ELSE IF Len(data) <= 3 THEN EncodeGroup(data)
    ELSE EncodeGroup(SubSeq(data, 1, 3))
            \o base64_encode(SubSeq(data, 4, Len(data)))

\* ------------------------------------------------------------ messages
Connected(session_id, role) ==
    [type |-> "connected", session_id |-> session_id, role |-> role]

\* KeyChunk with the index counted from 1.
KeyChunk_fromOne(index, data) ==
    [type |-> "key_chunk", index |-> index + 1, data |-> data]

KeyChunk(index, data) ==
    [type |-> "key_chunk", index |-> index, data |-> data]

SessionComplete(total_chunks) ==
    [type |-> "session_complete", total_chunks |-> total_chunks]

ErrorMsg == [type |-> "error", message |-> "Random generation failed"]

\* A progress message, as the stateless endpoint sends it.
Progress(current, total) ==
    [type |-> "progress", current |-> current, total |-> total]

\* CompletionFrames with a progress message before the completion.
CompletionFrames_withProgress(n) ==
    <<Progress(n, n), SessionComplete(n)>>

\* What generate_and_send_keys sends after its loop.
CompletionFrames(n) == <<SessionComplete(n)>>

\* Pong that echoes the ping.
Pong_echo == [type |-> "ping"]

\* The plain text frame pong.
Pong == [type |-> "pong"]

\* ws.close(Some(1000), ...) with the code of a going-away closure.
NormalClosure_goingAway == 1000 + 1

\* The close code of end_session.
NormalClosure == 1000

\* ParseClientMessage with a chunk_count that defaults to 0 when absent.
ParseClientMessage_lenient(f) ==
    IF f.kind # "json" THEN [ok |-> FALSE, variant |-> "", chunk_count |-> 0]
    ELSE IF f.type = "request_key"
        THEN [ok |-> TRUE, variant |-> "RequestKey",
              chunk_count |-> IF f.field = "chunk_count" THEN f.value ELSE 0]
    ELSE IF f.type = "end_session"
        THEN [ok |-> TRUE, variant |-> "EndSession", chunk_count |-> 0]
    ELSE [ok |-> FALSE, variant |-> "", chunk_count |-> 0]

\* serde_json::from_str::<ClientMessage>: the tag selects the variant,
\* RequestKey requires the field chunk_count, unknown fields are ignored.
ParseClientMessage(f) ==
    IF f.kind # "json" THEN [ok |-> FALSE, variant |-> "", chunk_count |-> 0]
    ELSE IF f.type = "request_key" /\ f.field = "chunk_count"
        THEN [ok |-> TRUE, variant |-> "RequestKey", chunk_count |-> f.value]
    ELSE IF f.type = "end_session"
        THEN [ok |-> TRUE, variant |-> "EndSession", chunk_count |-> 0]
    ELSE [ok |-> FALSE, variant |-> "", chunk_count |-> 0]

\* ------------------------------------------------------------- state
\* SessionState with a field that keeps the last chunk.
SessionState_withChunk(session_id, role) ==
    [session_id |-> session_id, role |-> role, chunks_generated |-> 0,
     last_chunk |-> << >>]

SessionState(session_id, role) ==
    [session_id |-> session_id, role |-> role, chunks_generated |-> 0]

NoAttachment == [session_id |-> "", role |-> "", chunks_generated |-> 0]

NoBuffer == << >>

\* No response yet.
NoResponse == [status |-> 0, body_len |-> 0, headers |-> {}]

\* No result of the encoder yet.
NotEncoded == [done |-> FALSE, text |-> << >>]

\* The chunks getrandom can deliver.
RandomChunks == [1..ChunkLen -> ByteVals]

\* params.get("role").cloned().unwrap_or_else(|| "sender")
RoleOf(param) == IF param = NoRole THEN "sender" ELSE param

\* Where generate_and_send_keys goes once the error message is sent: the
\* return statement leaves the handler.
AfterRandomFailure_noReturn == "loop"

AfterRandomFailure == "idle"

\* HandlerFree of a host that dispatches while a handler runs.
HandlerFree_reentrant == TRUE

\* The host dispatches the next event when no handler is running.
HandlerFree == pc = "idle"

\* ws.send_with_str with its result dropped: the frame goes out on an open
\* socket, and the error of a closed socket is ignored.
SendOn(ws, m) ==
    IF readyState[ws] = "open" THEN [out EXCEPT ![ws] = Append(@, m)] ELSE out

\* The frames ms sent one after the other.
SendAllOn(ws, ms) ==
    IF readyState[ws] = "open" THEN [out EXCEPT ![ws] = @ \o ms] ELSE out

SessionInit ==
    /\ nconn = 0
    /\ readyState = [w \in WS |-> "none"]
    /\ closeCode = [w \in WS |-> 0]
    /\ att = [w \in WS |-> NoAttachment]
    /\ out = [w \in WS |-> << >>]
    /\ inbox = [w \in WS |-> << >>]
    /\ clientClosed = [w \in WS |-> FALSE]
    /\ frames = 0
    /\ pc = "idle"
    /\ cur = 0
    /\ chunk_count = 0
    /\ i = 0
    /\ key_chunk = NoBuffer

\* No connection to /ws/key yet.
StreamInit ==
    /\ events = << >>
    /\ sent = << >>
    /\ task = "none"
    /\ req_count = 0
    /\ count = 0
    /\ si = 0
    /\ chunk_buf = NoBuffer
    /\ nevents = 0

\* No request has reached main yet.
NoRequest == [method |-> "none", count |-> << >>]

\* No bulk request yet.
BulkInit ==
    /\ request = NoRequest
    /\ response = NoResponse

\* No call of the encoder.
EncInit ==
    /\ enc_data = << >>
    /\ encoded = NotEncoded

Init == SessionInit /\ StreamInit /\ BulkInit /\ EncInit

\* ------------------------------------------------------------- client
\* The client of an accepted WebSocket sends a frame.
ClientSend(ws, f) ==
    /\ ws <= nconn
    /\ ~clientClosed[ws]
    /\ frames < MaxFrames
    /\ frames' = frames + 1
    /\ inbox' = [inbox EXCEPT ![ws] = Append(@, f)]
    /\ UNCHANGED <<nconn, readyState, closeCode, att, out, clientClosed,
                   pc, cur, chunk_count, i, key_chunk>>
    /\ UNCHANGED <<streamVars, bulkVars, encVars>>

\* The client closes its side: the close frame is its last frame.
ClientClose(ws) ==
    /\ ws <= nconn
    /\ ~clientClosed[ws]
    /\ frames < MaxFrames
    /\ frames' = frames + 1
    /\ clientClosed' = [clientClosed EXCEPT ![ws] = TRUE]
    /\ inbox' = [inbox EXCEPT ![ws] = Append(@, CloseFrame)]
    /\ UNCHANGED <<nconn, readyState, closeCode, att, out,
                   pc, cur, chunk_count, i, key_chunk>>
    /\ UNCHANGED <<streamVars, bulkVars, encVars>>

\* ------------------------------------------------------------ handlers
\* VernamSession::fetch
fetch(upgrade, session_id, roleParam) ==
    /\ HandlerFree
    /\ IF upgrade # "websocket"
       THEN \* Response::error("WebSocket required", 400): nothing is accepted
            UNCHANGED <<nconn, readyState, att, out>>
       ELSE /\ nconn < MaxConn
            /\ LET ws == nconn + 1
                   role == RoleOf(roleParam)
                   session_state == SessionState(session_id, role)
               IN  /\ nconn' = ws
                   /\ readyState' = [readyState EXCEPT ![ws] = "open"]
                   /\ att' = [att EXCEPT ![ws] = session_state]
                   /\ out' = [out EXCEPT ![ws] =
                        <<Connected(session_state.session_id, role)>>]
    /\ UNCHANGED <<closeCode, inbox, clientClosed, frames,
                   pc, cur, chunk_count, i, key_chunk>>
    /\ UNCHANGED <<streamVars, bulkVars, encVars>>

\* VernamSession::websocket_message: one frame of ws is dispatched.
websocket_message(ws) ==
    /\ HandlerFree
    /\ ws <= nconn
    /\ inbox[ws] # << >>
    /\ Head(inbox[ws]).kind # "close"
    /\ inbox' = [inbox EXCEPT ![ws] = Tail(@)]
    /\ LET message == Head(inbox[ws])
           msg == ParseClientMessage(message)
       IN  IF message.kind = "binary" THEN
               UNCHANGED <<out, readyState, closeCode, pc, cur, chunk_count, i>>
           ELSE IF message.kind = "ping" THEN
               /\ out' = SendOn(ws, Pong)
               /\ UNCHANGED <<readyState, closeCode, pc, cur, chunk_count, i>>
           ELSE IF ~msg.ok THEN
               UNCHANGED <<out, readyState, closeCode, pc, cur, chunk_count, i>>
           ELSE IF msg.variant = "RequestKey" THEN
               \* enters generate_and_send_keys(&ws, chunk_count)
               /\ pc' = "loop"
               /\ cur' = ws
               /\ chunk_count' = msg.chunk_count
               /\ i' = 0
               /\ UNCHANGED <<out, readyState, closeCode>>
           ELSE
               \* EndSession
               /\ out' = SendOn(ws, SessionComplete(0))
               /\ readyState' = [readyState EXCEPT ![ws] = "closed"]
               /\ closeCode' = [closeCode EXCEPT ![ws] =
                                   IF readyState[ws] = "open"
                                      THEN NormalClosure ELSE @]
               /\ UNCHANGED <<pc, cur, chunk_count, i>>
    /\ UNCHANGED <<nconn, att, clientClosed, frames, key_chunk>>
    /\ UNCHANGED <<streamVars, bulkVars, encVars>>

\* generate_and_send_keys, head of one iteration: a fresh buffer is filled by
\* getrandom, or getrandom fails and the error message ends the call.
getrandom_ok(bytes) ==
    /\ pc = "loop"
    /\ i < chunk_count
    /\ key_chunk' = bytes
    /\ pc' = "send"
    /\ UNCHANGED <<nconn, readyState, closeCode, att, out, inbox,
                   clientClosed, frames, cur, chunk_count, i>>
    /\ UNCHANGED <<streamVars, bulkVars, encVars>>

getrandom_err ==
    /\ pc = "loop"
    /\ i < chunk_count
    /\ out' = SendOn(cur, ErrorMsg)
    /\ pc' = AfterRandomFailure
    /\ IF pc' = "idle" THEN cur' = 0 /\ chunk_count' = 0 /\ i' = 0
       ELSE UNCHANGED <<cur, chunk_count, i>>
    /\ UNCHANGED <<nconn, readyState, closeCode, att, inbox,
                   clientClosed, frames, key_chunk>>
    /\ UNCHANGED <<streamVars, bulkVars, encVars>>

\* generate_and_send_keys, rest of the iteration: encode, send, and the
\* buffer goes out of scope.
send_key_chunk ==
    /\ pc = "send"
    /\ out' = SendOn(cur, KeyChunk(i, base64_encode(key_chunk)))
    /\ key_chunk' = NoBuffer
    /\ i' = i + 1
    /\ pc' = "loop"
    /\ UNCHANGED <<nconn, readyState, closeCode, att, inbox,
                   clientClosed, frames, cur, chunk_count>>
    /\ UNCHANGED <<streamVars, bulkVars, encVars>>

\* generate_and_send_keys, after the loop: the completion message.
send_complete ==
    /\ pc = "loop"
    /\ i >= chunk_count
    /\ out' = SendAllOn(cur, CompletionFrames(chunk_count))
    /\ pc' = "idle"
    /\ cur' = 0 /\ chunk_count' = 0 /\ i' = 0
    /\ UNCHANGED <<nconn, readyState, closeCode, att, inbox,
                   clientClosed, frames, key_chunk>>
    /\ UNCHANGED <<streamVars, bulkVars, encVars>>

\* VernamSession::websocket_close: the close frame of the client is
\* dispatched; the handler reads the attachment and logs.
websocket_close(ws) ==
    /\ HandlerFree
    /\ ws <= nconn
    /\ inbox[ws] # << >>
    /\ Head(inbox[ws]).kind = "close"
    /\ inbox' = [inbox EXCEPT ![ws] = Tail(@)]
    /\ readyState' = [readyState EXCEPT ![ws] = "closed"]
    /\ UNCHANGED <<nconn, closeCode, att, out, clientClosed, frames,
                   pc, cur, chunk_count, i, key_chunk>>
    /\ UNCHANGED <<streamVars, bulkVars, encVars>>

Next ==
    \/ \E ws \in WS, f \in ClientFrames : ClientSend(ws, f)
    \/ \E ws \in WS : ClientClose(ws)
    \/ \E u \in UpgradeHeaders, s \in SessionIds, r \in RoleParams :
          fetch(u, s, r)
    \/ \E ws \in WS : websocket_message(ws)
    \/ \E b \in RandomChunks : getrandom_ok(b)
    \/ getrandom_err
    \/ send_key_chunk
    \/ send_complete
    \/ \E ws \in WS : websocket_close(ws)

Spec == Init /\ [][Next]_vars

\* ============================================ the stateless endpoint
\* lib.rs: main accepts the WebSocket of /ws/key and spawns handle_websocket,
\* which reads the events of the socket one after the other.  send_key_chunks
\* awaits nothing, so no event is read while it loops.

\* Frames the client of /ws/key sends.
StreamFrames ==
    {Frame("ping", "", "", 0), Frame("garbage", "", "", 0),
     Frame("binary", "", "", 0),
     Frame("json", "end_session", "", 0),
     Frame("json", "request_key", "", 0),
     Frame("json", "bogus", "count", 1)}
    \cup {Frame("json", "request_key", "count", n) : n \in 0..MaxStreamCount}

\* The Err item of the event stream.
ErrEvent == Frame("err", "", "", 0)

\* serde_json::from_str::<KeyRequest>: the fields type and count are
\* required, whatever the type says.
ParseKeyRequest(f) ==
    IF f.kind = "json" /\ f.field = "count"
       THEN [ok |-> TRUE, request_type |-> f.type, count |-> f.value]
       ELSE [ok |-> FALSE, request_type |-> "", count |-> 0]

\* A binary frame holding one chunk.
Binary(bytes) == [type |-> "binary", data |-> bytes]

\* The text frame that ends a transaction of the stateless endpoint.
Complete(total) == [type |-> "complete", total |-> total]

Min(a, b) == IF a <= b THEN a ELSE b

\* Clamp that lets every count through.
Clamp_none(n) == n

\* let count = count.min(100000)
Clamp(n) == Min(n, MaxStreamChunks)

\* ProgressDue without the last chunk.
ProgressDue_cadenceOnly(j, c) == j % ProgressEvery = 0

\* i % 100 == 0 || i == count - 1
ProgressDue(j, c) == j % ProgressEvery = 0 \/ j = c - 1

\* ProgressFrame that reports the zero-based index.
ProgressFrame_zeroBased(j, c) == Progress(j, c)

\* The progress frame sent after chunk i.
ProgressFrame(j, c) == Progress(j + 1, c)

\* The client may still send: the socket is accepted, and neither a close
\* frame nor an error is under way or consumed.
StreamLive ==
    /\ task \notin {"none", "done"}
    /\ \A p \in 1..Len(events) : events[p].kind \notin {"close", "err"}

\* main, route /ws/key
main_ws_key(upgrade) ==
    /\ task = "none"
    /\ IF upgrade # "websocket"
       THEN \* Response::error("WebSocket required", 400)
            UNCHANGED task
       ELSE task' = "await"
    /\ UNCHANGED <<events, sent, req_count, count, si, chunk_buf, nevents>>
    /\ UNCHANGED <<sessionVars, bulkVars, encVars>>

\* The client sends a frame, closes, or the transport fails.
StreamClientEvent(e) ==
    /\ StreamLive
    /\ nevents < MaxFrames
    /\ nevents' = nevents + 1
    /\ events' = Append(events, e)
    /\ UNCHANGED <<sent, task, req_count, count, si, chunk_buf>>
    /\ UNCHANGED <<sessionVars, bulkVars, encVars>>

\* handle_websocket: one event is read from the stream.
handle_websocket ==
    /\ task = "await"
    /\ events # << >>
    /\ events' = Tail(events)
    /\ LET event == Head(events)
           req == ParseKeyRequest(event)
       IN  IF event.kind \in {"close", "err"} THEN
               /\ task' = "done"
               /\ UNCHANGED <<sent, req_count, count, si>>
           ELSE IF event.kind = "binary" THEN
               UNCHANGED <<sent, task, req_count, count, si>>
           ELSE IF event.kind = "ping" THEN
               /\ sent' = Append(sent, Pong)
               /\ UNCHANGED <<task, req_count, count, si>>
           ELSE IF req.ok /\ req.request_type = "request_key" THEN
               \* enters send_key_chunks(&ws, req.count)
               /\ task' = "loop"
               /\ req_count' = req.count
               /\ count' = Clamp(req.count)
               /\ si' = 0
               /\ UNCHANGED sent
           ELSE
               UNCHANGED <<sent, task, req_count, count, si>>
    /\ UNCHANGED <<chunk_buf, nevents>>
    /\ UNCHANGED <<sessionVars, bulkVars, encVars>>

\* send_key_chunks, head of one iteration.
stream_getrandom_ok(bytes) ==
    /\ task = "loop"
    /\ si < count
    /\ chunk_buf' = bytes
    /\ task' = "send"
    /\ UNCHANGED <<events, sent, req_count, count, si, nevents>>
    /\ UNCHANGED <<sessionVars, bulkVars, encVars>>

stream_getrandom_err ==
    /\ task = "loop"
    /\ si < count
    /\ sent' = Append(sent, ErrorMsg)
    /\ task' = "await"
    /\ req_count' = 0 /\ count' = 0 /\ si' = 0
    /\ UNCHANGED <<events, chunk_buf, nevents>>
    /\ UNCHANGED <<sessionVars, bulkVars, encVars>>

\* send_key_chunks, rest of the iteration: the binary frame, and the
\* progress frame when it is due.
stream_send_chunk ==
    /\ task = "send"
    /\ sent' = sent \o <<Binary(chunk_buf)>>
                    \o (IF ProgressDue(si, count)
                           THEN <<ProgressFrame(si, count)>> ELSE << >>)
    /\ chunk_buf' = NoBuffer
    /\ si' = si + 1
    /\ task' = "loop"
    /\ UNCHANGED <<events, req_count, count, nevents>>
    /\ UNCHANGED <<sessionVars, bulkVars, encVars>>

\* send_key_chunks, after the loop.
stream_complete ==
    /\ task = "loop"
    /\ si >= count
    /\ sent' = Append(sent, Complete(count))
    /\ task' = "await"
    /\ req_count' = 0 /\ count' = 0 /\ si' = 0
    /\ UNCHANGED <<events, chunk_buf, nevents>>
    /\ UNCHANGED <<sessionVars, bulkVars, encVars>>

NextStream ==
    \/ \E u \in UpgradeHeaders : main_ws_key(u)
    \/ \E e \in StreamFrames \cup {CloseFrame, ErrEvent} : StreamClientEvent(e)
    \/ handle_websocket
    \/ \E b \in RandomChunks : stream_getrandom_ok(b)
    \/ stream_getrandom_err
    \/ stream_send_chunk
    \/ stream_complete

SpecStream == Init /\ [][NextStream]_vars

\* ================================================== the bulk endpoint
\* lib.rs: main, route /key/:count.  One request is followed to its response.

\* const CHUNK_SIZE: usize = 16 * 1024
CHUNK_SIZE == 16 * 1024

\* The ceiling of the bulk route: .min(1000)
BulkCeiling == 1000

\* Characters of the path segment after /key/.
PathChars == {"0", "1", "9", "x"}

\* The segments a request can carry, the empty one (path /key/) included.
CountSegments == UNION {[1..n -> PathChars] : n \in 0..MaxDigits}

Methods == {"GET", "OPTIONS"}

Digits == {"0", "1", "2", "3", "4", "5", "6", "7", "8", "9"}

DigitValue(c) ==
    CASE c = "0" -> 0 [] c = "1" -> 1 [] c = "2" -> 2 [] c = "3" -> 3
      [] c = "4" -> 4 [] c = "5" -> 5 [] c = "6" -> 6 [] c = "7" -> 7
      [] c = "8" -> 8 [] c = "9" -> 9

RECURSIVE DecimalValue(_)
DecimalValue(str) ==
    IF str = << >> THEN 0
    ELSE 10 * DecimalValue(SubSeq(str, 1, Len(str) - 1)) + DigitValue(str[Len(str)])

\* str::parse::<usize>: a non-empty run of decimal digits, or Err.
ParseUsize(str) ==
    IF str # << >> /\ \A p \in 1..Len(str) : str[p] \in Digits
       THEN [ok |-> TRUE, value |-> DecimalValue(str)]
       ELSE [ok |-> FALSE, value |-> 0]

\* ChunkCount without the ceiling.
ChunkCount_unclamped(str) ==
    IF ParseUsize(str).ok THEN ParseUsize(str).value ELSE 1

\* chunk_count_str.parse().unwrap_or(1).min(1000)
ChunkCount(str) ==
    Min(IF ParseUsize(str).ok THEN ParseUsize(str).value ELSE 1, BulkCeiling)

Header(name, value) == [name |-> name, value |-> value]

\* cors_headers
CorsHeaders ==
    {Header("Access-Control-Allow-Origin", "*"),
     Header("Access-Control-Allow-Methods", "GET, POST, OPTIONS"),
     Header("Access-Control-Allow-Headers", "Content-Type, Upgrade")}

\* The headers of a successful bulk response.
BulkHeaders ==
    {Header("Content-Type", "application/octet-stream"),
     Header("Access-Control-Allow-Origin", "*")}

\* A request for /key/<segment> reaches main.
bulk_request(method, segment) ==
    /\ request = NoRequest
    /\ request' = [method |-> method, count |-> segment]
    /\ UNCHANGED response
    /\ UNCHANGED <<sessionVars, streamVars, encVars>>

\* main: the CORS preflight is answered before any route.
main_options ==
    /\ request.method = "OPTIONS"
    /\ response = NoResponse
    /\ response' = [status |-> 200, body_len |-> 0, headers |-> CorsHeaders]
    /\ UNCHANGED request
    /\ UNCHANGED <<sessionVars, streamVars, encVars>>

\* main, route /key/:count, getrandom fills the buffer.
main_key_ok ==
    /\ request.method = "GET"
    /\ response = NoResponse
    /\ LET total_size == ChunkCount(request.count) * CHUNK_SIZE
       IN  response' = [status |-> 200, body_len |-> total_size,
                        headers |-> BulkHeaders]
    /\ UNCHANGED request
    /\ UNCHANGED <<sessionVars, streamVars, encVars>>

\* main, route /key/:count, getrandom fails.
main_key_err ==
    /\ request.method = "GET"
    /\ response = NoResponse
    /\ response' = [status |-> 500, body_len |-> 0, headers |-> CorsHeaders]
    /\ UNCHANGED request
    /\ UNCHANGED <<sessionVars, streamVars, encVars>>

NextBulk ==
    \/ \E m \in Methods, seg \in CountSegments : bulk_request(m, seg)
    \/ main_options
    \/ main_key_ok
    \/ main_key_err

SpecBulk == Init /\ [][NextBulk]_vars

\* ========================================================= the encoder
\* vernam_session.rs: base64_encode, called once on an input.

\* Byte values of the encoder's inputs: both ends of the range, and values
\* that reach the last two characters of the alphabet.
EncBytes == {0, 1, 97, 251, 255}

\* The inputs of the encoder, the empty one included.
EncInputs == UNION {[1..n -> EncBytes] : n \in 0..MaxDataLen}

\* base64_encode(data) is called and returns.
call_base64_encode(input) ==
    /\ ~encoded.done
    /\ enc_data' = input
    /\ encoded' = [done |-> TRUE, text |-> base64_encode(input)]
    /\ UNCHANGED <<sessionVars, streamVars, bulkVars>>

NextEncode == \E input \in EncInputs : call_base64_encode(input)

SpecEncode == Init /\ [][NextEncode]_vars

\* ------------------------------------------------------------ the log
Last(s) == s[Len(s)]

\* s holds, from position from on, n key_chunk messages with indices 0..n-1.
IsChunkRun(s, from, n) ==
    \A k \in 0..(n - 1) :
        /\ s[from + k].type = "key_chunk"
        /\ s[from + k].index = k

\* s ends with the n chunks 0..n-1 and then the message last, and the
\* message before these chunks is no key_chunk.
EndsWithTransaction(s, n, last) ==
    /\ Len(s) >= n + 2
    /\ Last(s) = last
    /\ IsChunkRun(s, Len(s) - n, n)
    /\ s[Len(s) - n - 1].type # "key_chunk"

\* The step in which generate_and_send_keys leaves its loop normally.
CompleteStep == pc = "loop" /\ i >= chunk_count /\ pc' = "idle"

\* The step in which getrandom fails.
FailureStep == pc = "loop" /\ i < chunk_count /\ pc' # "send" /\ out' # out

\* A frame that asks for cancellation: end_session, or the close frame.
IsCancel(f) ==
    \/ f.kind = "close"
    \/ f.kind = "json" /\ f.type = "end_session"

CancelPending(ws) ==
    \E k \in 1..Len(inbox[ws]) : IsCancel(inbox[ws][k])

RequestPending(ws) ==
    \E k \in 1..Len(inbox[ws]) :
        ParseClientMessage(inbox[ws][k]).variant = "RequestKey"

\* ---------------------------------------------------------------- C1
\* C1: a request_key{n} with 0 < n <= ceiling on an open connection, with no
\* failure of the random source, has sent when it returns exactly the chunks
\* 0, 1, ..., n-1 in this order and then session_complete{n}, and the handler
\* is left, so nothing of the transaction follows the completion.
C1_ChunksThenComplete ==
    [][(CompleteStep /\ readyState[cur] = "open"
          /\ chunk_count > 0 /\ chunk_count <= CeilingChunks)
        => EndsWithTransaction(out'[cur], chunk_count,
                               SessionComplete(chunk_count))]_vars

C1_Witness ==
    \E ws \in WS :
        /\ pc = "idle"
        /\ EndsWithTransaction(out[ws], CeilingChunks,
                               SessionComplete(CeilingChunks))

\* ---------------------------------------------------------------- C2
\* C2: when the random source fails at chunk k, the chunks 0..k-1 are out,
\* the step sends exactly one error message and leaves the handler (no
\* further chunk, no completion), the connection stays open and the frames
\* waiting in the inbox are kept for the next dispatch.
C2_ErrorEndsTransaction ==
    [][(FailureStep /\ readyState[cur] = "open")
        => /\ out'[cur] = Append(out[cur], ErrorMsg)
           /\ EndsWithTransaction(out'[cur], i, ErrorMsg)
           /\ pc' = "idle"
           /\ readyState' = readyState
           /\ closeCode' = closeCode
           /\ inbox' = inbox]_vars

\* An error after chunk 0, and then a later request on the same connection
\* that completed.
C2_Witness ==
    \E ws \in WS :
        /\ pc = "idle"
        /\ Len(out[ws]) = 5
        /\ out[ws][2].type = "key_chunk"
        /\ out[ws][3] = ErrorMsg
        /\ out[ws][4].type = "key_chunk"
        /\ out[ws][5] = SessionComplete(1)

\* ---------------------------------------------------------------- C3
\* C3: a request_key{n} with n above the ceiling behaves as
\* request_key{ceiling}: ceiling chunks and session_complete{ceiling}.
C3_ClampedToCeiling ==
    [][(CompleteStep /\ readyState[cur] = "open"
          /\ chunk_count > CeilingChunks)
        => EndsWithTransaction(out'[cur], CeilingChunks,
                               SessionComplete(CeilingChunks))]_vars

\* ---------------------------------------------------------------- C4
\* C4: with an end_session or a close frame waiting at a chunk boundary of
\* the running transaction, no further chunk is begun.
C4_CancelStopsGeneration ==
    [][(pc = "loop" /\ i < chunk_count /\ CancelPending(cur))
        => pc' # "send"]_vars

\* ---------------------------------------------------------------- C5
\* C5: once end_session was processed on a connection (the server closed it
\* with code 1000), no chunk is generated and nothing is sent on it.
C5_ClosedIsAbsorbing ==
    [][\A ws \in WS :
          closeCode[ws] = 1000
          => /\ out'[ws] = out[ws]
             /\ ~(cur' = ws /\ pc' = "send")]_vars

\* ---------------------------------------------------------------- C6
\* C6: the step that sends session_complete{n} has increased chunks_generated
\* of the session by n, and no step decreases the counter.
C6_CounterCountsChunks ==
    [][/\ (CompleteStep
            => att'[cur].chunks_generated
                   = att[cur].chunks_generated + chunk_count)
       /\ \A ws \in WS : readyState[ws] # "none"
            => att'[ws].chunks_generated >= att[ws].chunks_generated]_vars

\* ---------------------------------------------------------------- C7
\* Chunks of the completed transactions of a log.
RECURSIVE CompletedTotal(_)
CompletedTotal(s) ==
    IF s = << >> THEN 0
    ELSE (IF Last(s).type = "session_complete"
             THEN Last(s).total_chunks ELSE 0)
         + CompletedTotal(SubSeq(s, 1, Len(s) - 1))

\* C7: a connection w2 made to the session_id and role of an earlier
\* connection w1, which its client closed, is greeted with the same session_id and role, and its state
\* holds at least the chunks of the transactions w1 completed.
C7_IdentitySurvivesReconnect ==
    \A w1, w2 \in WS :
        (/\ w1 < w2 /\ w2 <= nconn
         /\ readyState[w1] = "closed" /\ closeCode[w1] = 0
         /\ att[w2].session_id = att[w1].session_id
         /\ att[w2].role = att[w1].role)
        => /\ out[w2][1] = Connected(att[w1].session_id, att[w1].role)
           /\ att[w2].chunks_generated >= CompletedTotal(out[w1])

\* ---------------------------------------------------------------- C8
\* C8: the attachment of every accepted WebSocket is a record of exactly
\* session_id, role and chunks_generated, none of them chunk bytes or their
\* encoding, and at the head of every iteration no chunk buffer is held.
C8_NoKeyBytesInState ==
    /\ \A ws \in WS :
          /\ DOMAIN att[ws] = {"session_id", "role", "chunks_generated"}
          /\ att[ws].session_id \in SessionIds \cup {""}
          /\ att[ws].role \in {RoleOf(r) : r \in RoleParams} \cup {""}
          /\ att[ws].chunks_generated \in Nat
    /\ pc # "send" => key_chunk = NoBuffer

\* A second chunk is about to be generated after the first was sent.
C8_Witness ==
    /\ pc = "loop" /\ i = 1 /\ i < chunk_count
    /\ Last(out[cur]).type = "key_chunk"
    /\ Last(out[cur]).data = base64_encode([k \in 1..ChunkLen |-> 255])

\* ---------------------------------------------------------------- C9
\* Every key_chunk of a log with index k > 0 follows the key_chunk k-1, and
\* every key_chunk with index 0 follows a message that is no key_chunk.
NoInterleaving(s) ==
    \A p \in 1..Len(s) :
        s[p].type = "key_chunk"
        => /\ p > 1
           /\ IF s[p].index = 0
                 THEN s[p - 1].type # "key_chunk"
                 ELSE /\ s[p - 1].type = "key_chunk"
                      /\ s[p - 1].index = s[p].index - 1

\* C9: while a transaction generates, no frame is taken from an inbox (a
\* second request_key waits), and in every log the chunk indices of the
\* transactions do not interleave.
C9_RequestsAreSerialized ==
    [][/\ (pc # "idle" /\ pc' # "idle")
            => \A ws \in WS : Len(inbox'[ws]) >= Len(inbox[ws])
       /\ \A ws \in WS : NoInterleaving(out'[ws])]_vars

\* A second request_key waits while the first has sent a chunk, and has
\* more to send.
C9_Witness ==
    /\ pc = "loop" /\ i >= 1 /\ i < chunk_count
    /\ RequestPending(cur)

DispatchStep(ws) ==
    /\ HandlerFree
    /\ inbox[ws] # << >>
    /\ inbox'[ws] = Tail(inbox[ws])

IsEndSession(f) == f.kind = "json" /\ f.type = "end_session"

\* C13: the step that processes end_session on an open connection sends
\* exactly session_complete{0}, closes the connection with code 1000 and
\* starts no generation; no other log changes.
C13_EndSessionCompletesAndCloses ==
    [][\A ws \in WS :
          (DispatchStep(ws) /\ IsEndSession(Head(inbox[ws]))
             /\ readyState[ws] = "open")
          => /\ out'[ws] = Append(out[ws], SessionComplete(0))
             /\ \A w \in WS \ {ws} : out'[w] = out[w]
             /\ readyState'[ws] = "closed"
             /\ closeCode'[ws] = 1000
             /\ pc' = "idle"
             /\ key_chunk' = NoBuffer]_vars

\* end_session was processed after a completed transaction.
C13_Witness ==
    \E ws \in WS :
        /\ closeCode[ws] = 1000
        /\ Len(out[ws]) = 4
        /\ out[ws][2].type = "key_chunk"
        /\ out[ws][3] = SessionComplete(1)
        /\ out[ws][4] = SessionComplete(0)

\* --------------------------------------------------------------- C14
\* C14: the step that dispatches a ping on an open connection sends exactly
\* one pong on it and changes nothing else: no other log, no attachment, no
\* connection state, and no generation is started.
C14_PingAnsweredByPong ==
    [][\A ws \in WS :
          (DispatchStep(ws) /\ Head(inbox[ws]).kind = "ping"
             /\ readyState[ws] = "open")
          => /\ out'[ws] = Append(out[ws], [type |-> "pong"])
             /\ \A w \in WS \ {ws} : out'[w] = out[w]
             /\ att' = att
             /\ readyState' = readyState
             /\ closeCode' = closeCode
             /\ pc' = "idle"
             /\ key_chunk' = NoBuffer]_vars

\* A ping that waited during a transaction was answered after it.
C14_Witness ==
    \E ws \in WS :
        /\ Len(out[ws]) = 4
        /\ out[ws][2].type = "key_chunk"
        /\ out[ws][3] = SessionComplete(1)
        /\ out[ws][4].type = "pong"

\* --------------------------------------------------------------- C15
\* A frame that is neither ping nor a valid message: text that is not JSON,
\* JSON with an unknown type, request_key without chunk_count, a binary
\* frame.
IsMalformed(f) ==
    \/ f.kind \in {"garbage", "binary"}
    \/ f.kind = "json" /\ f.type \notin {"request_key", "end_session"}
    \/ f.kind = "json" /\ f.type = "request_key" /\ f.field # "chunk_count"

\* C15: the step that dispatches a malformed frame sends nothing, changes no
\* attachment and no connection state, closes nothing and starts nothing;
\* the frames behind it stay in the inbox.
C15_MalformedIsNoOp ==
    [][\A ws \in WS :
          (DispatchStep(ws) /\ IsMalformed(Head(inbox[ws])))
          => /\ out' = out
             /\ att' = att
             /\ readyState' = readyState
             /\ closeCode' = closeCode
             /\ pc' = "idle"
             /\ key_chunk' = NoBuffer
             /\ \A w \in WS \ {ws} : inbox'[w] = inbox[w]]_vars

\* A request_key behind a malformed frame is being served: both frames of
\* the run are consumed, no handler but this one has sent anything, the
\* connection is open and the chunk of the request is out.
C15_Witness ==
    /\ frames = 2
    /\ \A w \in WS : inbox[w] = << >>
    /\ pc = "loop" /\ i = 1 /\ chunk_count = 1
    /\ readyState[cur] = "open"
    /\ Len(out[cur]) = 2
    /\ out[cur][2].type = "key_chunk"

\* --------------------------------------------------------------- C18
\* C18: the loop yields after each chunk it sent: at a chunk boundary with
\* chunks still to generate, a waiting frame of the connection can be
\* dispatched.
C18_LoopYields ==
    (pc = "loop" /\ i >= 1 /\ i < chunk_count /\ inbox[cur] # << >>)
    => ENABLED websocket_message(cur)

\* -------------------------------------------- the stateless endpoint's log

\* The frames of the transaction under way: what was sent after the last
\* frame that is neither a chunk nor a progress message.
TxStart ==
    LET ends == {p \in 1..Len(sent) : sent[p].type \notin {"binary", "progress"}}
    IN  IF ends = {} THEN 0 ELSE CHOOSE p \in ends : \A q \in ends : q <= p

TxFrames == SubSeq(sent, TxStart + 1, Len(sent))

InTransaction == task \in {"loop", "send"}

\* The positions of the progress messages of the transaction.
ProgressAt == {p \in 1..Len(TxFrames) : TxFrames[p].type = "progress"}

\* The number of chunks among the first p frames of the transaction.
ChunksUpTo(p) == Cardinality({q \in 1..p : TxFrames[q].type = "binary"})

\* The step on which send_key_chunks sends the completion frame.
StreamCompleteStep ==
    /\ task = "loop" /\ task' = "await"
    /\ Len(sent') = Len(sent) + 1
    /\ Last(sent').type = "complete"

\* C11: on the stateless endpoint the progress.current values of one
\* transaction never decrease and never exceed progress.total, which is the
\* clamped count, and when the loop is over the last progress message has
\* current equal to that total.
C11_ProgressMonotone ==
    InTransaction =>
        /\ \A p \in ProgressAt :
              /\ TxFrames[p].total = count
              /\ TxFrames[p].current <= TxFrames[p].total
              /\ \A q \in ProgressAt :
                    q < p => TxFrames[q].current <= TxFrames[p].current
        /\ (task = "loop" /\ si >= count /\ count >= 1) =>
              /\ ProgressAt # {}
              /\ \E p \in ProgressAt :
                    /\ \A q \in ProgressAt : q <= p
                    /\ TxFrames[p].current = count

\* A transaction of at least three chunks has run to the end of its loop and
\* has sent more than one progress message.
C11_Witness ==
    /\ task = "loop" /\ si = count /\ count >= 3
    /\ req_count = count
    /\ Cardinality(ProgressAt) >= 2

\* C12: a request_key with count N on the stateless endpoint, without entropy
\* failure, sends exactly min(N, ceiling) binary frames and then exactly one
\* completion frame whose total is min(N, ceiling).
C12_ExactlyClampedChunks ==
    [][StreamCompleteStep =>
          /\ ChunksUpTo(Len(TxFrames)) = Min(req_count, MaxStreamChunks)
          /\ sent' = Append(sent, Complete(Min(req_count, MaxStreamChunks)))]_vars

\* A request above the ceiling has sent all its chunks.
C12_Witness ==
    /\ task = "loop" /\ si = count
    /\ req_count > MaxStreamChunks
    /\ ChunksUpTo(Len(TxFrames)) = MaxStreamChunks

\* The chunk of ordinal k (from one) of a transaction of c chunks is followed
\* by a progress message.
Reported(k, c) == (k - 1) % ProgressEvery = 0 \/ k = c

\* C20: on the stateless endpoint a progress message follows the binary
\* frame of chunk i+1 exactly when i mod cadence = 0 or i = c-1, once, with
\* current = i+1 and total = c; a transaction of count 0 sends only the
\* completion frame with total 0.
C20_ProgressCadence ==
    [][/\ InTransaction =>
             /\ ChunksUpTo(Len(TxFrames)) = si
             /\ \A p \in 1..Len(TxFrames) :
                   /\ TxFrames[p].type = "progress" =>
                         /\ p > 1
                         /\ TxFrames[p - 1].type = "binary"
                         /\ Reported(ChunksUpTo(p), count)
                         /\ TxFrames[p].current = ChunksUpTo(p)
                         /\ TxFrames[p].total = count
                   /\ (TxFrames[p].type = "binary"
                       /\ Reported(ChunksUpTo(p), count)) =>
                         /\ p < Len(TxFrames)
                         /\ TxFrames[p + 1].type = "progress"
       /\ (StreamCompleteStep /\ count = 0) =>
             /\ TxFrames = << >>
             /\ sent' = Append(sent, Complete(0))]_vars

\* A transaction of one chunk, where both conditions coincide, has sent its
\* chunk and a single progress message.
C20_Witness ==
    /\ task = "loop" /\ count = 1 /\ si = 1
    /\ Len(TxFrames) = 2
    /\ TxFrames[2] = Progress(1, 1)

\* ------------------------------------------------- the bulk endpoint's claims

\* The response to a GET on /key/<segment> with status 200.
BulkSuccess == request.method = "GET" /\ response.status = 200

HasHeader(name, value) ==
    \E h \in response.headers : h.name = name /\ h.value = value

\* C16: for a GET /key/{count} whose count parses as a non-negative integer
\* and whose random source succeeds, the body has exactly
\* min(count, 1000) * 16384 bytes.
C16_BulkBodySize ==
    (BulkSuccess /\ ParseUsize(request.count).ok) =>
        LET n == ParseUsize(request.count).value
            k == IF n <= 1000 THEN n ELSE 1000
        IN  response.body_len = k * 16384

\* A count above the ceiling has been served with the ceiling's body.
C16_Witness ==
    /\ BulkSuccess
    /\ ParseUsize(request.count).ok
    /\ ParseUsize(request.count).value > 1000
    /\ response.body_len = 1000 * 16384

\* C17: every successful bulk response carries X-Chunk-Count with the
\* clamped count and X-Chunk-Size: 16384.
C17_DescriptiveHeaders ==
    BulkSuccess =>
        /\ \E h \in response.headers : h.name = "X-Chunk-Count"
        /\ HasHeader("X-Chunk-Size", "16384")

\* ------------------------------------------------------ the encoder's claim

\* The base64 alphabet of RFC 4648, section 4, in the order of its values.
RefAlphabet ==
    <<"A","B","C","D","E","F","G","H","I","J","K","L","M">>
    \o <<"N","O","P","Q","R","S","T","U","V","W","X","Y","Z">>
    \o <<"a","b","c","d","e","f","g","h","i","j","k","l","m">>
    \o <<"n","o","p","q","r","s","t","u","v","w","x","y","z">>
    \o <<"0","1","2","3","4","5","6","7","8","9">>
    \o <<"+","/">>

RefChars == {RefAlphabet[p] : p \in 1..Len(RefAlphabet)}

\* The six bits a character stands for; padding stands for none.
RefValue(c) ==
    IF c = "=" THEN 0
    ELSE (CHOOSE p \in 1..Len(RefAlphabet) : RefAlphabet[p] = c) - 1

\* A reference decoder: four characters give 24 bits, of which the padding
\* takes the last one or two bytes away.
RefDecodeQuad(q) ==
    LET n == ((RefValue(q[1]) * 64 + RefValue(q[2])) * 64 + RefValue(q[3])) * 64
             + RefValue(q[4])
        bytes == << n \div 65536, (n \div 256) % 256, n % 256 >>
        keep == IF q[3] = "=" THEN 1 ELSE IF q[4] = "=" THEN 2 ELSE 3
    IN  SubSeq(bytes, 1, keep)

RECURSIVE RefDecode(_)
RefDecode(text) ==
    IF Len(text) < 4 THEN << >>
    ELSE RefDecodeQuad(SubSeq(text, 1, 4)) \o RefDecode(SubSeq(text, 5, Len(text)))

\* C19: base64_encode gives standard padded base64 without line breaks: for
\* an input of length L the output has length 4 * ceil(L / 3), its characters
\* are of the alphabet except for exactly (3 - L mod 3) mod 3 trailing '=',
\* a reference decoder gives the input back, and the empty input gives the
\* empty string.
C19_StandardBase64 ==
    encoded.done =>
        LET L == Len(enc_data)
            text == encoded.text
            pads == (3 - (L % 3)) % 3
        IN  /\ Len(text) = 4 * ((L + 2) \div 3)
            /\ \A p \in 1..Len(text) :
                  IF p > Len(text) - pads THEN text[p] = "="
                                          ELSE text[p] \in RefChars
            /\ RefDecode(text) = enc_data
            /\ (L = 0 => text = << >>)

\* An input of one full group and one byte over has been encoded, with two
\* padding characters, and reaches the last characters of the alphabet.
C19_Witness ==
    /\ encoded.done
    /\ Len(enc_data) = 4
    /\ Len(encoded.text) = 8
    /\ encoded.text[8] = "=" /\ encoded.text[7] = "="
    /\ \E p \in 1..6 : encoded.text[p] = "/"

====
